---- MODULE Spec2Model ----
(***************************************************************************)
(* Model of the Company Alignment Facilitator: the interviewer engine      *)
(* (ai_interviewer.py), the orchestrator (facilitator.py), the transcript  *)
(* store (data_manager.py) and the report generator (report_generator.py). *)
(* models.py (InterviewSession, ConversationTurn, AlignmentReport) is not  *)
(* part of the available sources; its operations are modelled from the     *)
(* written specification (sections 3 and 6).                               *)
(*                                                                         *)
(* Text is modelled as a sequence of characters so that str.strip() is a   *)
(* real computation.  An Optional[...] value is a sequence of length 0     *)
(* (None) or 1.                                                            *)
(***************************************************************************)
EXTENDS Integers, Sequences, FiniteSets, TLC

\* ------------------------------------------------------------------ bounds
MaxClock == 1           \* wall-clock seconds 0..MaxClock
MaxFailures == 1        \* provider failures in one session, engine driven directly
MaxFailLen == 3         \* under the orchestrator the provider fails only while
                        \* the conversation has fewer turns than this
MaxMemoryLen == 12      \* messages kept in the chain's buffer memory
MaxSaves == 2           \* successful saves called directly on the store
MaxFacadeTurns == 2     \* turn limits 1..MaxFacadeTurns when every orchestrator
                        \* operation is in play
MaxThreadTurns == 1     \* turn limits 1..MaxThreadTurns when two callers interleave
MaxThreadMemory == 4    \* messages in the chain's memory when two callers
                        \* interleave: callers enter while their exchanges fit

\* --------------------------------------------------------- program constants
MAX_INTERVIEW_TURNS == 5

\* ------------------------------------------------------------------ inputs
UserMessages == {"u1"}
Callers == {"c1", "c2"}     \* two concurrent callers of one orchestrator
Replies == {"r1"}

\* Topic texts: empty, blank, plain, and padded on both sides.
Topics == {<<>>, <<" ">>, <<"a">>, <<" ", "a", " ">>}

VARIABLES
    max_interview_turns,  \* Config.MAX_INTERVIEW_TURNS as configured
    is_demo_mode,         \* CompanyAlignmentFacilitator.is_demo_mode
    current_session,      \* AIInterviewer.current_session (Optional)
    memory,               \* conversation_chain.memory (buffer of messages)
    files,                \* conversations directory: second -> Optional file
    now,                  \* wall clock, in seconds
    ret,                  \* the last call: its name, arguments and result
    threads,              \* for each concurrent caller of conduct_interview,
                          \* where it stands in the call and what it holds
    saves                 \* history: for each successful save called directly
                          \* on the store, its second and the session's turns

vars == <<max_interview_turns, is_demo_mode, current_session, memory, files, now, ret,
          threads, saves>>

None == <<>>
Some(x) == <<x>>
Get(o) == o[1]

\* ------------------------------------------------------------ str.strip()
RECURSIVE LStrip(_)
LStrip(s) ==
    IF s # <<>> /\ Head(s) = " " THEN LStrip(Tail(s)) ELSE s

RECURSIVE RStrip(_)
RStrip(s) ==
    IF s # <<>> /\ s[Len(s)] = " " THEN RStrip(SubSeq(s, 1, Len(s) - 1)) ELSE s

Strip(s) == RStrip(LStrip(s))

\* ------------------------------------------------------- InterviewSession
InterviewSession(topic, max_turns, is_active) ==
    [topic |-> topic, conversation |-> <<>>, max_turns |-> max_turns,
     turns |-> 0, is_active |-> is_active]

\* The seed turn of a conversation does not count toward turns; every later
\* ASSISTANT turn closes one exchange.
add_turn(s, role, content) ==
    [s EXCEPT !.conversation = Append(@, [role |-> role, content |-> content]),
              !.turns = IF role = "ASSISTANT" /\ s.conversation # <<>>
                        THEN @ + 1 ELSE @]

is_complete(s) == s.turns >= s.max_turns

\* Role names as written to and read from a transcript file.
RoleValue(role) == IF role = "USER" THEN "user" ELSE "assistant"
RoleOfValue(v) == IF v = "user" THEN "USER" ELSE "ASSISTANT"

to_dict(s) ==
    [topic |-> s.topic, max_turns |-> s.max_turns, turns |-> s.turns,
     is_active |-> s.is_active,
     conversation |-> [i \in 1..Len(s.conversation) |->
                          [role |-> RoleValue(s.conversation[i].role),
                           content |-> s.conversation[i].content]]]

from_dict(d) ==
    [topic |-> d.topic, max_turns |-> d.max_turns, turns |-> d.turns,
     is_active |-> d.is_active,
     conversation |-> [i \in 1..Len(d.conversation) |->
                          [role |-> RoleOfValue(d.conversation[i].role),
                           content |-> d.conversation[i].content]]]

\* ------------------------------------------------------------ AIInterviewer
_generate_initial_question(topic) == <<"greeting", topic>>

NoReturn ==
    [op |-> "init", arg |-> <<>>, response |-> "", is_complete |-> FALSE,
     error |-> "None", session |-> None, provider_called |-> FALSE,
     saved |-> None, value |-> <<>>, raised |-> FALSE]

\* Variants of start_session used to test the sensitivity of the properties.
\* The topic is stored as given, untrimmed.
start_session_untrimmed(cs, mem, cfg, topic) ==
    IF Strip(topic) = <<>>
    THEN [cs |-> cs, mem |-> mem, raised |-> TRUE, session |-> None,
          replaced |-> cs]
    ELSE LET fresh == add_turn(InterviewSession(topic, cfg, TRUE),
                               "ASSISTANT", _generate_initial_question(topic))
         IN  [cs |-> Some(fresh), mem |-> mem, raised |-> FALSE,
              session |-> Some(fresh), replaced |-> cs]

\* The seed greeting is counted as a completed exchange.
start_session_counts_seed(cs, mem, cfg, topic) ==
    IF Strip(topic) = <<>>
    THEN [cs |-> cs, mem |-> mem, raised |-> TRUE, session |-> None,
          replaced |-> cs]
    ELSE LET seeded == add_turn(InterviewSession(Strip(topic), cfg, TRUE),
                                "ASSISTANT", _generate_initial_question(topic))
             fresh == [seeded EXCEPT !.turns = @ + 1]
         IN  [cs |-> Some(fresh), mem |-> mem, raised |-> FALSE,
              session |-> Some(fresh), replaced |-> cs]

\* Only the empty text is rejected; a blank topic is accepted.
start_session_blank_ok(cs, mem, cfg, topic) ==
    IF topic = <<>>
    THEN [cs |-> cs, mem |-> mem, raised |-> TRUE, session |-> None,
          replaced |-> cs]
    ELSE LET fresh == add_turn(InterviewSession(Strip(topic), cfg, TRUE),
                               "ASSISTANT", _generate_initial_question(topic))
         IN  [cs |-> Some(fresh), mem |-> mem, raised |-> FALSE,
              session |-> Some(fresh), replaced |-> cs]

\* A session still held is ended first: it is deactivated and the chain's
\* memory is cleared.
start_session_ends_previous(cs, mem, cfg, topic) ==
    IF Strip(topic) = <<>>
    THEN [cs |-> cs, mem |-> mem, raised |-> TRUE, session |-> None,
          replaced |-> cs]
    ELSE LET fresh == add_turn(InterviewSession(Strip(topic), cfg, TRUE),
                               "ASSISTANT", _generate_initial_question(topic))
         IN  [cs |-> Some(fresh), mem |-> <<>>, raised |-> FALSE,
              session |-> Some(fresh),
              replaced |-> IF cs = None THEN cs
                           ELSE Some([Get(cs) EXCEPT !.is_active = FALSE])]

\* Each engine operation yields the engine's next state and what it returns;
\* replaced is the session the engine referred to before, as the call
\* leaves it.
start_session(cs, mem, cfg, topic) ==
    IF Strip(topic) = <<>>
    THEN [cs |-> cs, mem |-> mem, raised |-> TRUE, session |-> None,
          replaced |-> cs]
    ELSE LET fresh == add_turn(InterviewSession(Strip(topic), cfg, TRUE),
                               "ASSISTANT", _generate_initial_question(topic))
         IN  [cs |-> Some(fresh), mem |-> mem, raised |-> FALSE,
              session |-> Some(fresh), replaced |-> cs]

\* Variants of conduct_interview used to test the sensitivity of the properties.
\* Completion is computed before the reply is appended.
conduct_interview_early_check(cs, mem, user_message, outcome) ==
    IF cs = None \/ ~Get(cs).is_active
    THEN [cs |-> cs, mem |-> mem, response |-> "", is_complete |-> FALSE,
          error |-> "No active interview session", provider_called |-> FALSE]
    ELSE IF is_complete(Get(cs))
    THEN [cs |-> cs, mem |-> mem, response |-> "", is_complete |-> TRUE,
          error |-> "Interview is already complete", provider_called |-> FALSE]
    ELSE LET asked == add_turn(Get(cs), "USER", user_message)
         IN  IF outcome = None
             THEN [cs |-> Some(asked), mem |-> mem, response |-> "",
                   is_complete |-> FALSE, error |-> "An error occurred",
                   provider_called |-> TRUE]
             ELSE LET answered == add_turn(asked, "ASSISTANT", Get(outcome))
                  IN  [cs |-> Some(answered),
                       mem |-> mem \o <<[type |-> "human", content |-> user_message],
                                        [type |-> "ai", content |-> Get(outcome)]>>,
                       response |-> Get(outcome),
                       is_complete |-> is_complete(asked),
                       error |-> "None", provider_called |-> TRUE]

\* The turn limit is not checked before the provider is called.
conduct_interview_no_limit(cs, mem, user_message, outcome) ==
    IF cs = None \/ ~Get(cs).is_active
    THEN [cs |-> cs, mem |-> mem, response |-> "", is_complete |-> FALSE,
          error |-> "No active interview session", provider_called |-> FALSE]
    ELSE IF FALSE
    THEN [cs |-> cs, mem |-> mem, response |-> "", is_complete |-> TRUE,
          error |-> "Interview is already complete", provider_called |-> FALSE]
    ELSE LET asked == add_turn(Get(cs), "USER", user_message)
         IN  IF outcome = None
             THEN [cs |-> Some(asked), mem |-> mem, response |-> "",
                   is_complete |-> FALSE, error |-> "An error occurred",
                   provider_called |-> TRUE]
             ELSE LET answered == add_turn(asked, "ASSISTANT", Get(outcome))
                  IN  [cs |-> Some(answered),
                       mem |-> mem \o <<[type |-> "human", content |-> user_message],
                                        [type |-> "ai", content |-> Get(outcome)]>>,
                       response |-> Get(outcome),
                       is_complete |-> is_complete(answered),
                       error |-> "None", provider_called |-> TRUE]

\* A call without a session reports completion.
conduct_interview_inactive_complete(cs, mem, user_message, outcome) ==
    IF cs = None \/ ~Get(cs).is_active
    THEN [cs |-> cs, mem |-> mem, response |-> "", is_complete |-> TRUE,
          error |-> "No active interview session", provider_called |-> FALSE]
    ELSE IF is_complete(Get(cs))
    THEN [cs |-> cs, mem |-> mem, response |-> "", is_complete |-> TRUE,
          error |-> "Interview is already complete", provider_called |-> FALSE]
    ELSE LET asked == add_turn(Get(cs), "USER", user_message)
         IN  IF outcome = None
             THEN [cs |-> Some(asked), mem |-> mem, response |-> "",
                   is_complete |-> FALSE, error |-> "An error occurred",
                   provider_called |-> TRUE]
             ELSE LET answered == add_turn(asked, "ASSISTANT", Get(outcome))
                  IN  [cs |-> Some(answered),
                       mem |-> mem \o <<[type |-> "human", content |-> user_message],
                                        [type |-> "ai", content |-> Get(outcome)]>>,
                       response |-> Get(outcome),
                       is_complete |-> is_complete(answered),
                       error |-> "None", provider_called |-> TRUE]

\* A failed provider call takes the USER turn back.
conduct_interview_rollback(cs, mem, user_message, outcome) ==
    IF cs = None \/ ~Get(cs).is_active
    THEN [cs |-> cs, mem |-> mem, response |-> "", is_complete |-> FALSE,
          error |-> "No active interview session", provider_called |-> FALSE]
    ELSE IF is_complete(Get(cs))
    THEN [cs |-> cs, mem |-> mem, response |-> "", is_complete |-> TRUE,
          error |-> "Interview is already complete", provider_called |-> FALSE]
    ELSE LET asked == add_turn(Get(cs), "USER", user_message)
         IN  IF outcome = None
             THEN [cs |-> cs, mem |-> mem, response |-> "",
                   is_complete |-> FALSE, error |-> "An error occurred",
                   provider_called |-> TRUE]
             ELSE LET answered == add_turn(asked, "ASSISTANT", Get(outcome))
                  IN  [cs |-> Some(answered),
                       mem |-> mem \o <<[type |-> "human", content |-> user_message],
                                        [type |-> "ai", content |-> Get(outcome)]>>,
                       response |-> Get(outcome),
                       is_complete |-> is_complete(answered),
                       error |-> "None", provider_called |-> TRUE]

\* Variant of conduct_interview: a message sent after an unanswered one
\* takes its place.
conduct_interview_replaces_unanswered(cs, mem, user_message, outcome) ==
    IF cs = None \/ ~Get(cs).is_active
    THEN [cs |-> cs, mem |-> mem, response |-> "", is_complete |-> FALSE,
          error |-> "No active interview session", provider_called |-> FALSE]
    ELSE IF is_complete(Get(cs))
    THEN [cs |-> cs, mem |-> mem, response |-> "", is_complete |-> TRUE,
          error |-> "Interview is already complete", provider_called |-> FALSE]
    ELSE LET s == Get(cs)
             n == Len(s.conversation)
             asked == IF n > 0 /\ s.conversation[n].role = "USER"
                      THEN [s EXCEPT !.conversation[n].content = user_message]
                      ELSE add_turn(s, "USER", user_message)
         IN  IF outcome = None
             THEN [cs |-> Some(asked), mem |-> mem, response |-> "",
                   is_complete |-> FALSE, error |-> "An error occurred",
                   provider_called |-> TRUE]
             ELSE LET answered == add_turn(asked, "ASSISTANT", Get(outcome))
                  IN  [cs |-> Some(answered),
                       mem |-> mem \o <<[type |-> "human", content |-> user_message],
                                        [type |-> "ai", content |-> Get(outcome)]>>,
                       response |-> Get(outcome),
                       is_complete |-> is_complete(answered),
                       error |-> "None", provider_called |-> TRUE]

\* Variant of conduct_interview: a call whose provider call failed counts
\* as a turn.
conduct_interview_counts_failures(cs, mem, user_message, outcome) ==
    IF cs = None \/ ~Get(cs).is_active
    THEN [cs |-> cs, mem |-> mem, response |-> "", is_complete |-> FALSE,
          error |-> "No active interview session", provider_called |-> FALSE]
    ELSE IF is_complete(Get(cs))
    THEN [cs |-> cs, mem |-> mem, response |-> "", is_complete |-> TRUE,
          error |-> "Interview is already complete", provider_called |-> FALSE]
    ELSE LET asked == add_turn(Get(cs), "USER", user_message)
         IN  IF outcome = None
             THEN [cs |-> Some([asked EXCEPT !.turns = @ + 1]), mem |-> mem,
                   response |-> "", is_complete |-> FALSE,
                   error |-> "An error occurred", provider_called |-> TRUE]
             ELSE LET answered == add_turn(asked, "ASSISTANT", Get(outcome))
                  IN  [cs |-> Some(answered),
                       mem |-> mem \o <<[type |-> "human", content |-> user_message],
                                        [type |-> "ai", content |-> Get(outcome)]>>,
                       response |-> Get(outcome),
                       is_complete |-> is_complete(answered),
                       error |-> "None", provider_called |-> TRUE]

\* Variant of conduct_interview: the exchange that completes the session
\* also deactivates it.
conduct_interview_deactivates(cs, mem, user_message, outcome) ==
    IF cs = None \/ ~Get(cs).is_active
    THEN [cs |-> cs, mem |-> mem, response |-> "", is_complete |-> FALSE,
          error |-> "No active interview session", provider_called |-> FALSE]
    ELSE IF is_complete(Get(cs))
    THEN [cs |-> cs, mem |-> mem, response |-> "", is_complete |-> TRUE,
          error |-> "Interview is already complete", provider_called |-> FALSE]
    ELSE LET asked == add_turn(Get(cs), "USER", user_message)
         IN  IF outcome = None
             THEN [cs |-> Some(asked), mem |-> mem, response |-> "",
                   is_complete |-> FALSE, error |-> "An error occurred",
                   provider_called |-> TRUE]
             ELSE LET answered == add_turn(asked, "ASSISTANT", Get(outcome))
                  IN  [cs |-> Some([answered EXCEPT
                                       !.is_active = ~is_complete(answered)]),
                       mem |-> mem \o <<[type |-> "human", content |-> user_message],
                                        [type |-> "ai", content |-> Get(outcome)]>>,
                       response |-> Get(outcome),
                       is_complete |-> is_complete(answered),
                       error |-> "None", provider_called |-> TRUE]

\* outcome is the provider's answer: a reply, or None when the call fails.
conduct_interview(cs, mem, user_message, outcome) ==
    IF cs = None \/ ~Get(cs).is_active
    THEN [cs |-> cs, mem |-> mem, response |-> "", is_complete |-> FALSE,
          error |-> "No active interview session", provider_called |-> FALSE]
    ELSE IF is_complete(Get(cs))
    THEN [cs |-> cs, mem |-> mem, response |-> "", is_complete |-> TRUE,
          error |-> "Interview is already complete", provider_called |-> FALSE]
    ELSE LET asked == add_turn(Get(cs), "USER", user_message)
         IN  IF outcome = None
             THEN [cs |-> Some(asked), mem |-> mem, response |-> "",
                   is_complete |-> FALSE, error |-> "An error occurred",
                   provider_called |-> TRUE]
             ELSE LET answered == add_turn(asked, "ASSISTANT", Get(outcome))
                  IN  [cs |-> Some(answered),
                       mem |-> mem \o <<[type |-> "human", content |-> user_message],
                                        [type |-> "ai", content |-> Get(outcome)]>>,
                       response |-> Get(outcome),
                       is_complete |-> is_complete(answered),
                       error |-> "None", provider_called |-> TRUE]

\* conduct_interview statement by statement, for callers that interleave.
\* The guards at its top.
conduct_check(cs) ==
    IF cs = None \/ ~Get(cs).is_active THEN "inactive"
    ELSE IF is_complete(Get(cs)) THEN "complete"
    ELSE "pass"

\* self.current_session.add_turn(USER, ...): the reference is read again,
\* and an absent session raises inside the try block.
conduct_append_user(cs, user_message) ==
    IF cs = None
    THEN [cs |-> cs, raised |-> TRUE]
    ELSE [cs |-> Some(add_turn(Get(cs), "USER", user_message)), raised |-> FALSE]

\* conversation_chain.predict: the chain stores the exchange in its memory
\* when the provider has answered.
conduct_predict(mem, user_message, outcome) ==
    IF outcome = None THEN mem
    ELSE mem \o <<[type |-> "human", content |-> user_message],
                  [type |-> "ai", content |-> Get(outcome)]>>

\* Variant of conduct_append_reply: the completion check is repeated before
\* the reply is appended, as under a lock around the whole call.
conduct_append_reply_rechecks(cs, ai_response) ==
    IF cs = None
    THEN [cs |-> cs, is_complete |-> FALSE, raised |-> TRUE]
    ELSE IF is_complete(Get(cs))
    THEN [cs |-> cs, is_complete |-> TRUE, raised |-> FALSE]
    ELSE LET answered == add_turn(Get(cs), "ASSISTANT", ai_response)
         IN  [cs |-> Some(answered), is_complete |-> is_complete(answered),
              raised |-> FALSE]

\* self.current_session.add_turn(ASSISTANT, ...) and the completion test
\* that follows it.
conduct_append_reply(cs, ai_response) ==
    IF cs = None
    THEN [cs |-> cs, is_complete |-> FALSE, raised |-> TRUE]
    ELSE LET answered == add_turn(Get(cs), "ASSISTANT", ai_response)
         IN  [cs |-> Some(answered), is_complete |-> is_complete(answered),
              raised |-> FALSE]

\* Variant of end_session: the chain's memory is left as it is.
end_session_keeps_memory(cs, mem) ==
    IF cs = None
    THEN [cs |-> cs, mem |-> mem, session |-> None]
    ELSE [cs |-> None, mem |-> mem,
          session |-> Some([Get(cs) EXCEPT !.is_active = FALSE])]

\* Variant of end_session: the engine keeps its reference to the ended session.
end_session_keeps_reference(cs, mem) ==
    IF cs = None
    THEN [cs |-> cs, mem |-> mem, session |-> None]
    ELSE [cs |-> Some([Get(cs) EXCEPT !.is_active = FALSE]), mem |-> <<>>,
          session |-> Some([Get(cs) EXCEPT !.is_active = FALSE])]

end_session(cs, mem) ==
    IF cs = None
    THEN [cs |-> cs, mem |-> mem, session |-> None]
    ELSE [cs |-> None, mem |-> <<>>,
          session |-> Some([Get(cs) EXCEPT !.is_active = FALSE])]

get_current_session(cs) == cs

is_session_active(cs) == cs # None /\ Get(cs).is_active

\* -------------------------------------------------------------- DataManager
\* Sessions handed to the store directly, built with the constructor and
\* add_turn: one without turns, and seeded ones with one and two exchanges.
Seeded(topic, is_active) ==
    add_turn(InterviewSession(topic, MAX_INTERVIEW_TURNS, is_active),
             "ASSISTANT", _generate_initial_question(topic))

Exchange(s) == add_turn(add_turn(s, "USER", "u1"), "ASSISTANT", "r1")

Sessions ==
    {InterviewSession(<<"a">>, MAX_INTERVIEW_TURNS, FALSE),
     Exchange(Seeded(<<"a">>, FALSE)),
     Exchange(Exchange(Seeded(<<"a">>, FALSE))),
     Exchange(Exchange(Seeded(<<"A", "b">>, TRUE)))}

NoFiles == [t \in 0..MaxClock |-> None]

\* Variants of save used to test the sensitivity of the properties.
\* The transcript is written as a closed session, is_active false.
save_interview_session_marks_inactive(fs, clock, s) ==
    IF s.conversation = <<>>
    THEN [fs |-> fs, path |-> None,
          error |-> "Cannot save empty interview session"]
    ELSE [fs |-> [fs EXCEPT ![clock] =
                     Some([ok |-> TRUE,
                           json |-> [saved_at |-> clock, file_version |-> "1.0",
                                     is_active |-> FALSE] @@ to_dict(s)])],
          path |-> Some(clock), error |-> "None"]

\* A free file name is taken when the name of the second is in use.
save_interview_session_fresh_name(fs, clock, s) ==
    IF s.conversation = <<>>
    THEN [fs |-> fs, path |-> None,
          error |-> "Cannot save empty interview session"]
    ELSE LET free == {t \in DOMAIN fs : fs[t] = None}
             name == IF fs[clock] # None /\ free # {}
                     THEN CHOOSE t \in free : TRUE ELSE clock
         IN  [fs |-> [fs EXCEPT ![name] =
                         Some([ok |-> TRUE,
                               json |-> [saved_at |-> clock,
                                         file_version |-> "1.0"] @@ to_dict(s)])],
              path |-> Some(name), error |-> "None"]

\* A session without turns is written like any other.
save_interview_session_accepts_empty(fs, clock, s) ==
    [fs |-> [fs EXCEPT ![clock] =
                Some([ok |-> TRUE,
                      json |-> [saved_at |-> clock, file_version |-> "1.0"]
                                   @@ to_dict(s)])],
     path |-> Some(clock), error |-> "None"]

\* A stored file holds the JSON object that save wrote: the session's
\* dictionary with saved_at and file_version set in it.  ok is FALSE for a
\* file whose content no longer parses.  The file name is the second of the
\* save.
save_interview_session(fs, clock, s) ==
    IF s.conversation = <<>>
    THEN [fs |-> fs, path |-> None,
          error |-> "Cannot save empty interview session"]
    ELSE [fs |-> [fs EXCEPT ![clock] =
                     Some([ok |-> TRUE,
                           json |-> [saved_at |-> clock, file_version |-> "1.0"]
                                        @@ to_dict(s)])],
          path |-> Some(clock), error |-> "None"]

\* load raises for a missing file and for one that does not parse.
load_fails(fs, path) == fs[path] = None \/ ~Get(fs[path]).ok

load_interview_session(fs, path) == from_dict(Get(fs[path]).json)

get_all_interview_files(fs) == {t \in DOMAIN fs : fs[t] # None}

\* Variant of the loop of load_all: it ends at the first file that fails
\* to load.
RECURSIVE LoadAllUntilFailure(_, _)
LoadAllUntilFailure(fs, p) ==
    IF p > MaxClock
    THEN <<>>
    ELSE IF p \notin get_all_interview_files(fs)
    THEN LoadAllUntilFailure(fs, p + 1)
    ELSE IF load_fails(fs, p)
    THEN <<>>
    ELSE <<load_interview_session(fs, p)>> \o LoadAllUntilFailure(fs, p + 1)

\* The sessions of the listed files from path p on, in listing order; a file
\* that fails to load is skipped.
RECURSIVE LoadAllFrom(_, _)
LoadAllFrom(fs, p) ==
    IF p > MaxClock
    THEN <<>>
    ELSE (IF p \in get_all_interview_files(fs) /\ ~load_fails(fs, p)
          THEN <<load_interview_session(fs, p)>>
          ELSE <<>>) \o LoadAllFrom(fs, p + 1)

load_all_interview_sessions(fs) == LoadAllFrom(fs, 0)

\* Variant of delete: success is reported whether or not the file existed.
delete_interview_file_always_true(fs, path) ==
    IF fs[path] # None
    THEN [fs |-> [fs EXCEPT ![path] = None], result |-> TRUE]
    ELSE [fs |-> fs, result |-> TRUE]

delete_interview_file(fs, path) ==
    IF fs[path] # None
    THEN [fs |-> [fs EXCEPT ![path] = None], result |-> TRUE]
    ELSE [fs |-> fs, result |-> FALSE]

\* str.title() of a role value.
RoleTitle(role) == IF role = "USER" THEN "User" ELSE "Assistant"

\* The text of a session: a topic line, then one line per turn.
get_conversation_text(s) ==
    <<<<"Topic", s.topic>>>> \o
        [i \in 1..Len(s.conversation) |->
            <<RoleTitle(s.conversation[i].role), s.conversation[i].content>>]

\* sum(s.turns for s in sessions)
RECURSIVE SumTurns(_)
SumTurns(sessions) ==
    IF sessions = <<>> THEN 0
    ELSE Head(sessions).turns + SumTurns(Tail(sessions))

\* sum(len(s.conversation) for s in sessions)
RECURSIVE SumConversations(_)
SumConversations(sessions) ==
    IF sessions = <<>> THEN 0
    ELSE Len(Head(sessions).conversation) + SumConversations(Tail(sessions))

\* round(num / den, 2) in hundredths, ties to the even hundredth.
Round2(num, den) ==
    LET q == (100 * num) \div den
        r == (100 * num) % den
    IN  IF 2 * r < den THEN q
        ELSE IF 2 * r > den THEN q + 1
        ELSE IF q % 2 = 0 THEN q ELSE q + 1

\* Variant of get_statistics: the average is taken over the conversation
\* lengths instead of the turns values.
get_statistics_averages_records(fs) ==
    LET sessions == load_all_interview_sessions(fs)
    IN  IF sessions = <<>>
        THEN [total_interviews |-> 0, total_conversations |-> 0,
              average_turns |-> 0, topics |-> {}]
        ELSE [total_interviews |-> Len(sessions),
              total_conversations |-> SumConversations(sessions),
              average_turns |-> Round2(SumConversations(sessions), Len(sessions)),
              topics |-> {sessions[i].topic : i \in 1..Len(sessions)}]

\* average_turns is kept in hundredths; topics is a set, its listing order
\* being unspecified.
get_statistics(fs) ==
    LET sessions == load_all_interview_sessions(fs)
    IN  IF sessions = <<>>
        THEN [total_interviews |-> 0, total_conversations |-> 0,
              average_turns |-> 0, topics |-> {}]
        ELSE [total_interviews |-> Len(sessions),
              total_conversations |-> SumConversations(sessions),
              average_turns |-> Round2(SumTurns(sessions), Len(sessions)),
              topics |-> {sessions[i].topic : i \in 1..Len(sessions)}]

\* ---------------------------------------------------------- ReportGenerator
\* str.lower() over the letters that occur in topics and filters.
LowerChar(c) == CASE c = "A" -> "a" [] c = "B" -> "b" [] OTHER -> c

Lower(text) == [i \in 1..Len(text) |-> LowerChar(text[i])]

\* Python's "sub in text" for strings.
Contains(sub, text) ==
    \E i \in 0..(Len(text) - Len(sub)) : SubSeq(text, i + 1, i + Len(sub)) = sub

\* Variant of Matches: the comparison is case-sensitive.
Matches_case_sensitive(topic, s) == Contains(topic, s.topic)

\* topic.lower() in s.topic.lower()
Matches(topic, s) == Contains(Lower(topic), Lower(s.topic))

AlignmentReport(summary, total_interviews, topic) ==
    [summary |-> summary, total_interviews |-> total_interviews, topic |-> topic]

VariousTopics == <<"Various topics">>

Summaries == {"s1"}

\* One document per session: its text and its metadata.
_sessions_to_documents(sessions) ==
    [i \in 1..Len(sessions) |->
        [page_content |-> get_conversation_text(sessions[i]),
         metadata |-> [topic |-> sessions[i].topic, turns |-> sessions[i].turns]]]

\* An Optional[str] filter counts as given when it is a non-empty text.
Truthy(topic) == topic # None /\ Get(topic) # <<>>

Retained(sessions, topic) ==
    IF Truthy(topic)
    THEN SelectSeq(sessions, LAMBDA s : Matches(Get(topic), s))
    ELSE sessions

\* Variant of generate_alignment_report: a filter that retains no session
\* is not refused.
generate_alignment_report_no_match_check(fs, topic, outcome) ==
    LET sessions == load_all_interview_sessions(fs)
        retained == Retained(sessions, topic)
        label == IF Truthy(topic) THEN Get(topic) ELSE VariousTopics
        call == [kind |-> "map_reduce", topic |-> label,
                 documents |-> _sessions_to_documents(retained)]
    IN  IF sessions = <<>>
        THEN [report |-> None, error |-> "No interview transcripts found",
              calls |-> <<>>]
        ELSE IF outcome = None
        THEN [report |-> None, error |-> "provider error", calls |-> <<call>>]
        ELSE [report |-> Some(AlignmentReport(Get(outcome), Len(retained), label)),
              error |-> "None", calls |-> <<call>>]

\* The result of generate_alignment_report: the report or the error raised,
\* and the calls made to the provider.  outcome is the provider's combined
\* summary, or None when the summarization fails.  The splitting of long
\* texts into chunks is left out: the summary is whatever the provider
\* returns.
generate_alignment_report(fs, topic, outcome) ==
    LET sessions == load_all_interview_sessions(fs)
        retained == Retained(sessions, topic)
        label == IF Truthy(topic) THEN Get(topic) ELSE VariousTopics
        call == [kind |-> "map_reduce", topic |-> label,
                 documents |-> _sessions_to_documents(retained)]
    IN  IF sessions = <<>>
        THEN [report |-> None, error |-> "No interview transcripts found",
              calls |-> <<>>]
        ELSE IF retained = <<>>
        THEN [report |-> None, error |-> "No interviews found for topic",
              calls |-> <<>>]
        ELSE IF outcome = None
        THEN [report |-> None, error |-> "provider error", calls |-> <<call>>]
        ELSE [report |-> Some(AlignmentReport(Get(outcome), Len(retained), label)),
              error |-> "None", calls |-> <<call>>]

\* Variant of AddToGroup: a session already in the group of a topic is not
\* added to it again.
AddToGroup_once(groups, topic, s) ==
    IF \E g \in 1..Len(groups) : groups[g].topic = topic
    THEN [g \in 1..Len(groups) |->
             IF groups[g].topic = topic
                 /\ \A i \in 1..Len(groups[g].sessions) : groups[g].sessions[i] # s
             THEN [groups[g] EXCEPT !.sessions = Append(@, s)]
             ELSE groups[g]]
    ELSE Append(groups, [topic |-> topic, sessions |-> <<s>>])

\* topic_sessions[topic].append(session), the dictionary kept as the
\* sequence of its entries in insertion order.
AddToGroup(groups, topic, s) ==
    IF \E g \in 1..Len(groups) : groups[g].topic = topic
    THEN [g \in 1..Len(groups) |->
             IF groups[g].topic = topic
             THEN [groups[g] EXCEPT !.sessions = Append(@, s)]
             ELSE groups[g]]
    ELSE Append(groups, [topic |-> topic, sessions |-> <<s>>])

\* The grouping loops, sessions outside and topics inside; k counts the
\* iterations done.
RECURSIVE GroupFrom(_, _, _, _)
GroupFrom(sessions, topics, k, groups) ==
    IF k >= Len(sessions) * Len(topics)
    THEN groups
    ELSE LET s == sessions[(k \div Len(topics)) + 1]
             topic == topics[(k % Len(topics)) + 1]
         IN  GroupFrom(sessions, topics, k + 1,
                       IF Matches(topic, s) THEN AddToGroup(groups, topic, s)
                       ELSE groups)

RECURSIVE SumGroups(_)
SumGroups(groups) ==
    IF groups = <<>> THEN 0
    ELSE Len(Head(groups).sessions) + SumGroups(Tail(groups))

\* ', '.join(topics)
RECURSIVE Join(_)
Join(topics) ==
    IF topics = <<>> THEN <<>>
    ELSE IF Len(topics) = 1 THEN Head(topics)
    ELSE Head(topics) \o <<",", " ">> \o Join(Tail(topics))

\* Variant of _generate_comparative_summary: a summarization that fails is
\* skipped and the remaining calls are still made.
_generate_comparative_summary_skips_failure(groups, fail_at, reply) ==
    LET all == [g \in 1..Len(groups) |->
                   [kind |-> "map_reduce", topic |-> groups[g].topic,
                    documents |-> _sessions_to_documents(groups[g].sessions)]]
               \o <<[kind |-> "predict",
                      topic |-> [g \in 1..Len(groups) |-> groups[g].topic],
                      documents |-> <<>>]>>
    IN  IF fail_at = Len(all)
        THEN [summary |-> None, calls |-> all]
        ELSE [summary |-> Some(reply), calls |-> all]

\* The provider calls of a comparative summary: one summarization per
\* group, then one free-form call.  fail_at is the number of the call that
\* fails, 0 when none does.
_generate_comparative_summary(groups, fail_at, reply) ==
    LET all == [g \in 1..Len(groups) |->
                   [kind |-> "map_reduce", topic |-> groups[g].topic,
                    documents |-> _sessions_to_documents(groups[g].sessions)]]
               \o <<[kind |-> "predict",
                      topic |-> [g \in 1..Len(groups) |-> groups[g].topic],
                      documents |-> <<>>]>>
    IN  IF fail_at \in 1..Len(all)
        THEN [summary |-> None, calls |-> SubSeq(all, 1, fail_at)]
        ELSE [summary |-> Some(reply), calls |-> all]

generate_comparative_report(fs, topics, fail_at, reply) ==
    LET all_sessions == load_all_interview_sessions(fs)
        topic_sessions == GroupFrom(all_sessions, topics, 0, <<>>)
        s == _generate_comparative_summary(topic_sessions, fail_at, reply)
    IN  IF all_sessions = <<>>
        THEN [report |-> None, calls |-> <<>>,
              error |-> "No interview data available for comparison"]
        ELSE IF topic_sessions = <<>>
        THEN [report |-> None, calls |-> <<>>,
              error |-> "No interviews found for the specified topics"]
        ELSE IF s.summary = None
        THEN [report |-> None, error |-> "provider error", calls |-> s.calls]
        ELSE [report |-> Some(AlignmentReport(Get(s.summary),
                                  SumGroups(topic_sessions),
                                  <<"Comparative analysis: ">> \o Join(topics))),
              error |-> "None", calls |-> s.calls]

\* ------------------------------------------------ CompanyAlignmentFacilitator
\* _save_current_session reads the engine's current session at the time it
\* runs and saves it when it has at least one turn.
_save_current_session(fs, clock, cs) ==
    IF get_current_session(cs) # None /\ Get(cs).conversation # <<>>
    THEN LET r == save_interview_session(fs, clock, Get(cs))
         IN  [fs |-> r.fs, path |-> r.path]
    ELSE [fs |-> fs, path |-> None]

\* `except Exception as e: return f"<prefix>: {e}"`
ErrorText(prefix, message) ==
    [kind |-> "error", prefix |-> prefix, message |-> message]

\* The rendering of a report for display.
to_markdown(report) ==
    [kind |-> "markdown", summary |-> report.summary,
     total_interviews |-> report.total_interviews, topic |-> report.topic]

\* Each orchestrator operation below yields what it returns, whether an
\* exception leaves it (raised), and the provider calls made.  In demo
\* mode ai_interviewer and report_generator are None, and a call on either
\* raises AttributeError where the code makes it.
\* Variant of the orchestrator's conduct_interview: the session is saved
\* after every call, complete or not.
facilitator_conduct_interview_saves_every_turn(demo, cs, mem, fs, clock, m, outcome) ==
    IF demo
    THEN [cs |-> cs, mem |-> mem, fs |-> fs, response |-> "",
          is_complete |-> FALSE, error |-> "Demo Mode",
          provider_called |-> FALSE, saved |-> None]
    ELSE LET r == conduct_interview(cs, mem, m, outcome)
             s == _save_current_session(fs, clock, r.cs)
         IN  [cs |-> r.cs, mem |-> r.mem, fs |-> s.fs, response |-> r.response,
              is_complete |-> r.is_complete, error |-> r.error,
              provider_called |-> r.provider_called, saved |-> s.path]

facilitator_conduct_interview(demo, cs, mem, fs, clock, m, outcome) ==
    IF demo
    THEN [cs |-> cs, mem |-> mem, fs |-> fs, response |-> "",
          is_complete |-> FALSE, error |-> "Demo Mode",
          provider_called |-> FALSE, saved |-> None]
    ELSE LET r == conduct_interview(cs, mem, m, outcome)
             s == IF r.is_complete
                  THEN _save_current_session(fs, clock, r.cs)
                  ELSE [fs |-> fs, path |-> None]
         IN  [cs |-> r.cs, mem |-> r.mem, fs |-> s.fs, response |-> r.response,
              is_complete |-> r.is_complete, error |-> r.error,
              provider_called |-> r.provider_called, saved |-> s.path]

facilitator_end_session(demo, cs, mem, fs, clock) ==
    IF demo
    THEN [raised |-> FALSE, response |-> "Error ending session",
          cs |-> cs, mem |-> mem, fs |-> fs, session |-> None, saved |-> None]
    ELSE LET r == end_session(cs, mem)
             s == IF r.session # None
                  THEN _save_current_session(fs, clock, r.cs)
                  ELSE [fs |-> fs, path |-> None]
         IN  [raised |-> FALSE,
              response |-> "Alignment session ended. All data has been saved.",
              cs |-> r.cs, mem |-> r.mem, fs |-> s.fs,
              session |-> r.session, saved |-> s.path]

facilitator_generate_alignment_report(demo, fs, topic, outcome) ==
    IF demo
    THEN [raised |-> FALSE, value |-> [kind |-> "demo"], calls |-> <<>>]
    ELSE LET r == generate_alignment_report(fs, topic, outcome)
         IN  IF r.report = None
             THEN [raised |-> FALSE, calls |-> r.calls,
                   value |-> ErrorText("Error generating alignment report",
                                       r.error)]
             ELSE [raised |-> FALSE, calls |-> r.calls,
                   value |-> to_markdown(Get(r.report))]

\* ReportGenerator.generate_topic_specific_report
generate_topic_specific_report(fs, topic, outcome) ==
    generate_alignment_report(fs, Some(topic), outcome)

facilitator_generate_topic_specific_report(demo, fs, topic, outcome) ==
    IF demo
    THEN [raised |-> FALSE, calls |-> <<>>,
          value |-> ErrorText("Error generating topic-specific report",
                              "AttributeError")]
    ELSE LET r == generate_topic_specific_report(fs, topic, outcome)
         IN  IF r.report = None
             THEN [raised |-> FALSE, calls |-> r.calls,
                   value |-> ErrorText("Error generating topic-specific report",
                                       r.error)]
             ELSE [raised |-> FALSE, calls |-> r.calls,
                   value |-> to_markdown(Get(r.report))]

\* Variant of the orchestrator's comparative report: the call on the report
\* generator is made outside the try block.
facilitator_generate_comparative_report_uncaught(demo, fs, topics, fail_at, reply) ==
    IF demo
    THEN [raised |-> TRUE, calls |-> <<>>,
          value |-> ErrorText("", "AttributeError")]
    ELSE LET r == generate_comparative_report(fs, topics, fail_at, reply)
         IN  IF r.report = None
             THEN [raised |-> TRUE, calls |-> r.calls,
                   value |-> ErrorText("", r.error)]
             ELSE [raised |-> FALSE, calls |-> r.calls,
                   value |-> to_markdown(Get(r.report))]

facilitator_generate_comparative_report(demo, fs, topics, fail_at, reply) ==
    IF demo
    THEN [raised |-> FALSE, calls |-> <<>>,
          value |-> ErrorText("Error generating comparative report",
                              "AttributeError")]
    ELSE LET r == generate_comparative_report(fs, topics, fail_at, reply)
         IN  IF r.report = None
             THEN [raised |-> FALSE, calls |-> r.calls,
                   value |-> ErrorText("Error generating comparative report",
                                       r.error)]
             ELSE [raised |-> FALSE, calls |-> r.calls,
                   value |-> to_markdown(Get(r.report))]

\* ReportGenerator.get_report_statistics
get_report_statistics(fs) ==
    LET sessions == load_all_interview_sessions(fs)
        topics == {sessions[i].topic : i \in 1..Len(sessions)}
    IN  [unique_topics |-> Cardinality(topics), topics |-> topics]
            @@ get_statistics(fs)

facilitator_get_current_session(demo, cs) ==
    IF demo THEN None ELSE get_current_session(cs)

facilitator_is_session_active(demo, cs) ==
    IF demo THEN FALSE ELSE is_session_active(cs)

facilitator_get_statistics(demo, fs, cs) ==
    LET stats == get_statistics(fs)
        combined == IF demo
                    THEN [demo_mode |-> TRUE, ai_features_available |-> FALSE]
                             @@ stats
                    ELSE get_report_statistics(fs) @@ stats
        active == facilitator_is_session_active(demo, cs)
        session == facilitator_get_current_session(demo, cs)
    IN  [raised |-> FALSE,
         value |-> IF active
                   THEN [session_active |-> TRUE,
                         current_topic |-> Get(session).topic,
                         current_turns |-> Get(session).turns] @@ combined
                   ELSE [session_active |-> FALSE] @@ combined]

\* A call reaches the provider only from an active, incomplete session.
ReachesProvider ==
    /\ is_session_active(current_session)
    /\ ~is_complete(Get(current_session))

Unanswered(s) ==
    Cardinality({i \in 1..Len(s.conversation) : s.conversation[i].role = "USER"})
        - s.turns

\* What the provider may answer to the next call, engine driven directly.
Outcomes ==
    {Some(r) : r \in Replies}
        \cup (IF ReachesProvider /\ Unanswered(Get(current_session)) >= MaxFailures
              THEN {} ELSE {None})

\* What the provider may answer to the next call made through the orchestrator.
FacOutcomes ==
    {Some(r) : r \in Replies}
        \cup (IF ReachesProvider
                  /\ Len(Get(current_session).conversation) >= MaxFailLen
              THEN {} ELSE {None})

CanConduct == ReachesProvider => Len(memory) + 2 <= MaxMemoryLen

\* A caller of conduct_interview: where it stands and what it holds.
Idle ==
    [pc |-> "idle", user_message |-> "", response |-> "",
     is_complete |-> FALSE, error |-> "None", saved |-> None]

NoThreads == [c \in Callers |-> Idle]

\* ---------------------------------------------------------------- actions
Init ==
    /\ max_interview_turns \in 1..MAX_INTERVIEW_TURNS
    /\ is_demo_mode = FALSE
    /\ current_session = None
    /\ memory = <<>>
    /\ files = NoFiles
    /\ now = 0
    /\ ret = NoReturn
    /\ threads = NoThreads
    /\ saves = <<>>

\* The store and the report generator under the configuration as shipped.
InitStore ==
    /\ max_interview_turns = MAX_INTERVIEW_TURNS
    /\ is_demo_mode = FALSE
    /\ current_session = None
    /\ memory = <<>>
    /\ files = NoFiles
    /\ now = 0
    /\ ret = NoReturn
    /\ threads = NoThreads
    /\ saves = <<>>

\* The orchestrator as constructed with or without an API key, with a
\* short turn limit.
InitFacade ==
    /\ max_interview_turns \in 1..MaxFacadeTurns
    /\ is_demo_mode \in BOOLEAN
    /\ current_session = None
    /\ memory = <<>>
    /\ files = NoFiles
    /\ now = 0
    /\ ret = NoReturn
    /\ threads = NoThreads
    /\ saves = <<>>

Tick ==
    /\ now < MaxClock
    /\ now' = now + 1
    /\ UNCHANGED <<max_interview_turns, is_demo_mode, threads, saves, current_session, memory, files, ret>>

\* AIInterviewer.start_session called directly on the engine.
StartSession ==
    \E topic \in Topics :
        LET r == start_session(current_session, memory, max_interview_turns, topic)
        IN  /\ current_session' = r.cs
            /\ memory' = r.mem
            /\ ret' = [NoReturn EXCEPT !.op = "start_session", !.arg = topic,
                          !.session = r.session,
                          !.error = IF r.raised THEN "Topic cannot be empty"
                                    ELSE "None"]
            /\ UNCHANGED <<max_interview_turns, is_demo_mode, threads, saves, files, now>>

\* AIInterviewer.conduct_interview called directly on the engine.
ConductInterview ==
    /\ CanConduct
    /\ \E m \in UserMessages, outcome \in Outcomes :
        LET r == conduct_interview(current_session, memory, m, outcome)
        IN  /\ current_session' = r.cs
            /\ memory' = r.mem
            /\ ret' = [NoReturn EXCEPT !.op = "conduct_interview", !.arg = m,
                          !.response = r.response,
                          !.is_complete = r.is_complete, !.error = r.error,
                          !.provider_called = r.provider_called]
            /\ UNCHANGED <<max_interview_turns, is_demo_mode, threads, saves, files, now>>

\* AIInterviewer.end_session called directly on the engine.
EndSession ==
    LET r == end_session(current_session, memory)
    IN  /\ current_session' = r.cs
        /\ memory' = r.mem
        /\ ret' = [NoReturn EXCEPT !.op = "end_session", !.session = r.session]
        /\ UNCHANGED <<max_interview_turns, is_demo_mode, threads, saves, files, now>>

\* CompanyAlignmentFacilitator.start_new_session
FacStartNewSession ==
    \E topic \in Topics :
        IF is_demo_mode
        THEN /\ ret' = [NoReturn EXCEPT !.op = "start_new_session",
                           !.arg = topic, !.response = "Demo Mode"]
             /\ UNCHANGED <<max_interview_turns, is_demo_mode, threads, saves,
                            current_session, memory, files, now>>
        ELSE IF Strip(topic) = <<>>
        THEN /\ ret' = [NoReturn EXCEPT !.op = "start_new_session",
                           !.arg = topic,
                           !.response = "Please enter a valid alignment topic."]
             /\ UNCHANGED <<max_interview_turns, is_demo_mode, threads, saves, current_session, memory,
                            files, now>>
        ELSE LET r == start_session(current_session, memory,
                                    max_interview_turns, Strip(topic))
             IN  /\ current_session' = r.cs
                 /\ memory' = r.mem
                 /\ ret' = [NoReturn EXCEPT !.op = "start_new_session",
                               !.arg = topic,
                               !.response = IF r.raised
                                            THEN "Error starting session"
                                            ELSE "Alignment session started!"]
                 /\ UNCHANGED <<max_interview_turns, is_demo_mode, threads, saves, files, now>>

\* CompanyAlignmentFacilitator.conduct_interview
FacConductInterview ==
    /\ CanConduct
    /\ \E m \in UserMessages, outcome \in FacOutcomes :
        LET r == facilitator_conduct_interview(is_demo_mode, current_session,
                                               memory, files, now, m, outcome)
        IN  /\ current_session' = r.cs
            /\ memory' = r.mem
            /\ files' = r.fs
            /\ ret' = [NoReturn EXCEPT !.op = "fac_conduct_interview",
                          !.arg = m, !.response = r.response,
                          !.is_complete = r.is_complete, !.error = r.error,
                          !.provider_called = r.provider_called,
                          !.saved = r.saved]
            /\ UNCHANGED <<max_interview_turns, is_demo_mode, threads, saves, now>>

\* CompanyAlignmentFacilitator.end_session
FacEndSession ==
    LET r == facilitator_end_session(is_demo_mode, current_session, memory,
                                     files, now)
    IN  /\ current_session' = r.cs
        /\ memory' = r.mem
        /\ files' = r.fs
        /\ ret' = [NoReturn EXCEPT !.op = "fac_end_session",
                      !.response = r.response, !.raised = r.raised,
                      !.session = r.session, !.saved = r.saved]
        /\ UNCHANGED <<max_interview_turns, is_demo_mode, threads, saves, now>>

\* DataManager.save_interview_session called directly on the store.
SaveSession ==
    \E s \in Sessions :
        /\ s.conversation # <<>> => Len(saves) < MaxSaves
        /\ LET r == save_interview_session(files, now, s)
           IN  /\ files' = r.fs
               /\ saves' = IF r.path # None
                           THEN Append(saves, [at |-> now, turns |-> s.turns])
                           ELSE saves
               /\ ret' = [NoReturn EXCEPT !.op = "save_interview_session",
                             !.session = Some(s), !.saved = r.path,
                             !.error = r.error]
        /\ UNCHANGED <<max_interview_turns, is_demo_mode, threads, current_session, memory, now>>

\* DataManager.load_interview_session
LoadSession ==
    \E path \in 0..MaxClock :
        /\ ret' = [NoReturn EXCEPT !.op = "load_interview_session",
                      !.arg = path,
                      !.session = IF load_fails(files, path) THEN None
                                  ELSE Some(load_interview_session(files, path)),
                      !.error = IF load_fails(files, path)
                                THEN "Error loading interview session"
                                ELSE "None"]
        /\ UNCHANGED <<max_interview_turns, is_demo_mode, threads, current_session, memory, files,
                       now, saves>>

\* DataManager.get_statistics
GetStatistics ==
    /\ ret' = [NoReturn EXCEPT !.op = "get_statistics",
                  !.value = get_statistics(files)]
    /\ UNCHANGED <<max_interview_turns, is_demo_mode, threads, current_session, memory, files,
                   now, saves>>

\* DataManager.load_all_interview_sessions
LoadAll ==
    /\ ret' = [NoReturn EXCEPT !.op = "load_all_interview_sessions",
                  !.value = load_all_interview_sessions(files)]
    /\ UNCHANGED <<max_interview_turns, is_demo_mode, threads, current_session, memory, files,
                   now, saves>>

\* DataManager.delete_interview_file
DeleteFile ==
    \E path \in 0..MaxClock :
        LET r == delete_interview_file(files, path)
        IN  /\ files' = r.fs
            /\ ret' = [NoReturn EXCEPT !.op = "delete_interview_file",
                          !.arg = path, !.value = r.result]
            /\ UNCHANGED <<max_interview_turns, is_demo_mode, threads, current_session, memory,
                           now, saves>>

\* The environment damages a stored file (a write cut short, an edit by
\* hand), after which it no longer parses.
CorruptFile ==
    \E path \in get_all_interview_files(files) :
        /\ Get(files[path]).ok
        /\ files' = [files EXCEPT ![path] = Some([Get(@) EXCEPT !.ok = FALSE])]
        /\ ret' = [NoReturn EXCEPT !.op = "corrupt", !.arg = path]
        /\ UNCHANGED <<max_interview_turns, is_demo_mode, threads, current_session, memory,
                       now, saves>>

\* Filters of a report request: none, the empty text, and texts that match
\* both stored topics, one of them, or none.
TopicFilters == {None, Some(<<>>), Some(<<"A">>), Some(<<"b">>), Some(<<"z">>)}

\* Topic lists of a comparative request.
TopicLists ==
    {<<>>, <<<<"z">>>>, <<<<"A">>, <<"b">>>>, <<<<"b">>, <<"z">>>>,
     <<<<"A">>, <<"A">>>>}

\* ReportGenerator.generate_alignment_report
GenerateAlignmentReport ==
    \E topic \in TopicFilters, outcome \in {None} \cup {Some(s) : s \in Summaries} :
        LET r == generate_alignment_report(files, topic, outcome)
        IN  \* no outcome is drawn for a provider that is not called
            /\ r.calls = <<>> => outcome = None
            /\ ret' = [NoReturn EXCEPT !.op = "generate_alignment_report",
                          !.arg = [topic |-> topic, outcome |-> outcome],
                          !.error = r.error,
                          !.provider_called = (r.calls # <<>>),
                          !.value = r]
            /\ UNCHANGED <<max_interview_turns, is_demo_mode, threads, current_session, memory,
                           files, now, saves>>

\* ReportGenerator.generate_comparative_report
GenerateComparativeReport ==
    \E topics \in TopicLists, fail_at \in 0..3, reply \in Summaries :
        LET r == generate_comparative_report(files, topics, fail_at, reply)
        IN  \* at most two groups and so three calls; the failing call is
            \* one of the calls made
            /\ fail_at <= Len(r.calls)
            /\ ret' = [NoReturn EXCEPT !.op = "generate_comparative_report",
                          !.arg = [topics |-> topics, fail_at |-> fail_at,
                                   reply |-> reply],
                          !.error = r.error,
                          !.provider_called = (r.calls # <<>>),
                          !.value = r]
            /\ UNCHANGED <<max_interview_turns, is_demo_mode, threads, current_session, memory,
                           files, now, saves>>

\* CompanyAlignmentFacilitator.generate_alignment_report
FacGenerateAlignmentReport ==
    \E topic \in TopicFilters, outcome \in {None} \cup {Some(s) : s \in Summaries} :
        LET r == facilitator_generate_alignment_report(is_demo_mode, files,
                                                       topic, outcome)
        IN  /\ r.calls = <<>> => outcome = None
            /\ ret' = [NoReturn EXCEPT !.op = "fac_generate_alignment_report",
                          !.arg = [topic |-> topic, outcome |-> outcome],
                          !.provider_called = (r.calls # <<>>),
                          !.value = r.value, !.raised = r.raised]
            /\ UNCHANGED <<max_interview_turns, is_demo_mode, threads, current_session,
                           memory, files, now, saves>>

\* CompanyAlignmentFacilitator.generate_topic_specific_report
FacGenerateTopicSpecificReport ==
    \E topic \in {Get(f) : f \in TopicFilters \ {None}},
       outcome \in {None} \cup {Some(s) : s \in Summaries} :
        LET r == facilitator_generate_topic_specific_report(is_demo_mode, files,
                                                            topic, outcome)
        IN  /\ r.calls = <<>> => outcome = None
            /\ ret' = [NoReturn EXCEPT !.op = "fac_generate_topic_specific_report",
                          !.arg = [topic |-> topic, outcome |-> outcome],
                          !.provider_called = (r.calls # <<>>),
                          !.value = r.value, !.raised = r.raised]
            /\ UNCHANGED <<max_interview_turns, is_demo_mode, threads, current_session,
                           memory, files, now, saves>>

\* CompanyAlignmentFacilitator.generate_comparative_report
FacGenerateComparativeReport ==
    \E topics \in TopicLists, fail_at \in 0..3, reply \in Summaries :
        LET r == facilitator_generate_comparative_report(is_demo_mode, files,
                                                         topics, fail_at, reply)
        IN  /\ fail_at <= Len(r.calls)
            /\ ret' = [NoReturn EXCEPT !.op = "fac_generate_comparative_report",
                          !.arg = [topics |-> topics, fail_at |-> fail_at,
                                   reply |-> reply],
                          !.provider_called = (r.calls # <<>>),
                          !.value = r.value, !.raised = r.raised]
            /\ UNCHANGED <<max_interview_turns, is_demo_mode, threads, current_session,
                           memory, files, now, saves>>

\* CompanyAlignmentFacilitator.get_statistics
FacGetStatistics ==
    LET r == facilitator_get_statistics(is_demo_mode, files, current_session)
    IN  /\ ret' = [NoReturn EXCEPT !.op = "fac_get_statistics",
                      !.value = r.value, !.raised = r.raised]
        /\ UNCHANGED <<max_interview_turns, is_demo_mode, threads, current_session,
                       memory, files, now, saves>>

\* CompanyAlignmentFacilitator.get_current_session and is_session_active
FacSessionGetters ==
    /\ ret' = [NoReturn EXCEPT !.op = "fac_session_getters",
                  !.session = facilitator_get_current_session(is_demo_mode,
                                                              current_session),
                  !.value = facilitator_is_session_active(is_demo_mode,
                                                         current_session)]
    /\ UNCHANGED <<max_interview_turns, is_demo_mode, threads, current_session,
                   memory, files, now, saves>>

\* The orchestrator as the front end drives it, with the clock running.
\* ------------------------------------------------- interleaved callers
\* conduct_interview of the orchestrator taken one statement at a time by
\* each caller.  Start and end are taken whole.
ThreadCheck(c) ==
    /\ threads[c].pc = "idle"
    /\ ~is_demo_mode
    /\ Len(memory) + 2 * (Cardinality({d \in Callers : threads[d].pc # "idle"}) + 1)
           <= MaxThreadMemory
    /\ \E m \in UserMessages :
        LET check == conduct_check(current_session)
        IN  threads' = [threads EXCEPT ![c] =
                [Idle EXCEPT
                    !.pc = IF check = "pass" THEN "checked"
                           ELSE IF check = "complete" THEN "returned"
                           ELSE "idle",
                    !.user_message = m,
                    !.is_complete = (check = "complete"),
                    !.error = IF check = "pass" THEN "None"
                              ELSE IF check = "complete"
                              THEN "Interview is already complete"
                              ELSE "No active interview session"]]
    /\ UNCHANGED <<max_interview_turns, is_demo_mode, saves, current_session,
                   memory, files, now, ret>>

ThreadAppendUser(c) ==
    /\ threads[c].pc = "checked"
    /\ LET r == conduct_append_user(current_session, threads[c].user_message)
       IN  /\ current_session' = r.cs
           /\ threads' = [threads EXCEPT ![c] =
                   IF r.raised
                   THEN [@ EXCEPT !.pc = "idle",
                                  !.error = "An error occurred: NoneType"]
                   ELSE [@ EXCEPT !.pc = "calling"]]
    /\ UNCHANGED <<max_interview_turns, is_demo_mode, saves, memory, files,
                   now, ret>>

\* The provider call returns, or fails.
ThreadPredict(c) ==
    /\ threads[c].pc = "calling"
    /\ \E outcome \in {Some(r) : r \in Replies}
            \cup (IF current_session # None
                     /\ Len(Get(current_session).conversation) >= MaxFailLen
                  THEN {} ELSE {None}) :
        /\ memory' = conduct_predict(memory, threads[c].user_message, outcome)
        /\ threads' = [threads EXCEPT ![c] =
                IF outcome = None
                THEN [@ EXCEPT !.pc = "idle", !.error = "An error occurred"]
                ELSE [@ EXCEPT !.pc = "answered", !.response = Get(outcome)]]
    /\ UNCHANGED <<max_interview_turns, is_demo_mode, saves, current_session,
                   files, now, ret>>

ThreadAppendReply(c) ==
    /\ threads[c].pc = "answered"
    /\ LET r == conduct_append_reply(current_session, threads[c].response)
       IN  /\ current_session' = r.cs
           /\ threads' = [threads EXCEPT ![c] =
                   IF r.raised
                   THEN [@ EXCEPT !.pc = "idle", !.response = "",
                                  !.error = "An error occurred: NoneType"]
                   ELSE [@ EXCEPT !.pc = IF r.is_complete THEN "returned"
                                         ELSE "idle",
                                  !.is_complete = r.is_complete]]
    /\ UNCHANGED <<max_interview_turns, is_demo_mode, saves, memory, files,
                   now, ret>>

\* Back in the orchestrator with is_complete = true: the session is saved.
ThreadSave(c) ==
    /\ threads[c].pc = "returned"
    /\ LET s == _save_current_session(files, now, current_session)
       IN  /\ files' = s.fs
           /\ threads' = [threads EXCEPT ![c] =
                   [@ EXCEPT !.pc = "idle", !.saved = s.path]]
    /\ UNCHANGED <<max_interview_turns, is_demo_mode, saves, current_session,
                   memory, now, ret>>

Next ==
    \/ Tick
    \/ FacStartNewSession
    \/ FacConductInterview
    \/ FacEndSession

Spec == Init /\ [][Next]_vars

\* The engine driven directly, as its unit tests drive it; the orchestrator's
\* start is included because it never touches the store.
NextEngine ==
    \/ StartSession
    \/ ConductInterview
    \/ EndSession
    \/ FacStartNewSession

SpecEngine == Init /\ [][NextEngine]_vars

\* Every operation of the orchestrator, in either mode, called within one
\* second: the clock stands still and saves go to the file of that second.
NextFacade ==
    \/ FacStartNewSession
    \/ FacConductInterview
    \/ FacEndSession
    \/ FacGenerateAlignmentReport
    \/ FacGenerateTopicSpecificReport
    \/ FacGenerateComparativeReport
    \/ FacGetStatistics
    \/ FacSessionGetters

SpecFacade == InitFacade /\ [][NextFacade]_vars

\* Two callers of one orchestrator whose conduct_interview calls interleave
\* at statement boundaries, within one second.
InitThreads ==
    /\ max_interview_turns \in 1..MaxThreadTurns
    /\ is_demo_mode = FALSE
    /\ current_session = None
    /\ memory = <<>>
    /\ files = NoFiles
    /\ now = 0
    /\ ret = NoReturn
    /\ threads = NoThreads
    /\ saves = <<>>

NextThreads ==
    \/ FacStartNewSession
    \/ FacEndSession
    \/ \E c \in Callers : ThreadCheck(c)
    \/ \E c \in Callers : ThreadAppendUser(c)
    \/ \E c \in Callers : ThreadPredict(c)
    \/ \E c \in Callers : ThreadAppendReply(c)
    \/ \E c \in Callers : ThreadSave(c)

SpecThreads == InitThreads /\ [][NextThreads]_vars

\* The store driven directly, as its unit tests drive it: sessions are
\* saved, read back and counted while the clock runs.
NextSaves ==
    \/ Tick
    \/ SaveSession
    \/ LoadSession
    \/ GetStatistics

SpecSaves == InitStore /\ [][NextSaves]_vars

\* The store with files being deleted and damaged between the calls.
NextStore ==
    \/ Tick
    \/ SaveSession
    \/ CorruptFile
    \/ DeleteFile
    \/ LoadAll
    \/ GetStatistics

SpecStore == InitStore /\ [][NextStore]_vars

\* Reports requested over a store that is filled and damaged in between.
NextReports ==
    \/ Tick
    \/ SaveSession
    \/ CorruptFile
    \/ GenerateAlignmentReport
    \/ GenerateComparativeReport

SpecReports == InitStore /\ [][NextReports]_vars

\* ================================================================ properties
NumRole(s, role) ==
    Cardinality({i \in 1..Len(s.conversation) : s.conversation[i].role = role})

Blank(topic) == \A i \in 1..Len(topic) : topic[i] = " "

\* C1: whenever a session with a non-empty conversation exists and has not
\* reached its turn limit, the orchestrator's end_session saves it, so the
\* store afterwards holds a transcript of the ended session.
C1_EndSessionSaves ==
    (/\ ret.op = "fac_end_session"
     /\ ret.session # None
     /\ Get(ret.session).conversation # <<>>
     /\ Get(ret.session).turns < Get(ret.session).max_turns)
        => /\ ret.saved # None
           /\ files[Get(ret.saved)] # None
           /\ load_interview_session(files, Get(ret.saved)) = Get(ret.session)

\* C2: on an empty store with max_turns = 5, the fifth of five successful
\* submitTurn calls reports completion, exactly one transcript file exists
\* afterwards, and loading it gives turns = 5 and is_active = false.
C2_FiveTurnScenario ==
    [][(/\ FacConductInterview
        /\ files = NoFiles
        /\ max_interview_turns = 5
        /\ current_session # None
        /\ NumRole(Get(current_session), "USER") = 4
        /\ Get(current_session).turns = 4
        /\ ret'.error = "None")
          => /\ ret'.is_complete
             /\ Cardinality(get_all_interview_files(files')) = 1
             /\ \A p \in get_all_interview_files(files') :
                    /\ load_interview_session(files', p).turns = 5
                    /\ load_interview_session(files', p).is_active = FALSE]_vars

SessionCountsExchanges(s) ==
    /\ s.conversation # <<>>
    /\ s.conversation[1].role = "ASSISTANT"
    /\ s.turns = NumRole(s, "ASSISTANT") - 1
    /\ (Len(s.conversation) = 3 /\ s.conversation[3].role = "ASSISTANT"
           /\ s.conversation[2].role = "USER") => s.turns = 1

C6_CompleteSessionRejects ==
    [][(/\ ConductInterview
        /\ current_session # None
        /\ Get(current_session).is_active
        /\ Get(current_session).turns >= Get(current_session).max_turns)
          => /\ ret'.error = "Interview is already complete"
             /\ ret'.response = ""
             /\ ~ret'.provider_called
             /\ current_session' = current_session
             /\ memory' = memory]_vars

C6_Witness ==
    /\ ret.op = "conduct_interview"
    /\ ret.error = "Interview is already complete"
    /\ Get(current_session).turns = Get(current_session).max_turns

\* C7: submitTurn without an active session returns the no-active-session
\* error with an empty response and isComplete = false, calls no provider,
\* creates no session and writes nothing to the store.
C7_NoActiveSessionRejects ==
    [][(FacConductInterview /\ ~is_session_active(current_session))
          => /\ ret'.error = "No active interview session"
             /\ ret'.response = ""
             /\ ~ret'.is_complete
             /\ ~ret'.provider_called
             /\ current_session' = current_session
             /\ memory' = memory
             /\ files' = files
             /\ ret'.saved = None]_vars

\* The call is made after a session was completed, saved and ended.
C7_Witness ==
    /\ ret.op = "fac_conduct_interview"
    /\ ret.error = "No active interview session"
    /\ current_session = None
    /\ get_all_interview_files(files) # {}

\* C8: when the provider fails, submitTurn returns an empty response,
\* isComplete = false and an error; is_active and turns are unchanged, the
\* USER turn stays as the last turn, no ASSISTANT turn is added and nothing
\* is persisted.
C8_ProviderFailure ==
    [][(FacConductInterview /\ ret'.provider_called /\ ret'.response = "")
          => /\ ret'.error = "An error occurred"
             /\ ~ret'.is_complete
             /\ current_session' # None
             /\ Get(current_session').is_active = Get(current_session).is_active
             /\ Get(current_session').turns = Get(current_session).turns
             /\ Get(current_session').conversation =
                    Append(Get(current_session).conversation,
                           [role |-> "USER", content |-> ret'.arg])
             /\ memory' = memory
             /\ files' = files
             /\ ret'.saved = None]_vars

C8_Witness ==
    /\ ret.op = "fac_conduct_interview"
    /\ ret.provider_called
    /\ ret.error = "An error occurred"
    /\ Get(current_session).is_active
    /\ Len(Get(current_session).conversation) = 3
    /\ Get(current_session).conversation[3].role = "USER"

\* C9: start with an empty or blank topic fails, in the engine with the
\* invalid-input error and in the orchestrator with the valid-topic message,
\* and leaves the engine's session and memory as they were.
C9_BlankTopicRejected ==
    [][/\ (StartSession /\ Blank(ret'.arg))
            => /\ ret'.error = "Topic cannot be empty"
               /\ ret'.session = None
               /\ current_session' = current_session
               /\ memory' = memory
       /\ (FacStartNewSession /\ Blank(ret'.arg))
            => /\ ret'.response = "Please enter a valid alignment topic."
               /\ current_session' = current_session
               /\ memory' = memory
               /\ files' = files]_vars

\* A blank topic was refused while a session with an exchange was open.
C9_Witness ==
    /\ ret.op = "start_session"
    /\ ret.arg = <<" ">>
    /\ ret.error = "Topic cannot be empty"
    /\ current_session # None
    /\ Get(current_session).turns >= 1

\* C10: the engine's end with a session present returns that session with
\* is_active = false and nothing else changed, clears the chain's memory and
\* leaves the engine without a session until the next start.
C10_EndReturnsInactiveSession ==
    [][/\ (EndSession /\ current_session # None)
            => /\ ret'.session = Some([Get(current_session) EXCEPT !.is_active = FALSE])
               /\ memory' = <<>>
               /\ get_current_session(current_session') = None
               /\ ~is_session_active(current_session')
       /\ (current_session = None /\ current_session' # None)
            => ret'.op \in {"start_session", "start_new_session"}]_vars

\* A session with at least one exchange in memory was ended.
C10_Witness ==
    /\ ret.op = "end_session"
    /\ ret.session # None
    /\ Get(ret.session).turns >= 1
    /\ ~Get(ret.session).is_active
    /\ current_session = None
    /\ memory = <<>>

\* C11: the engine's end with no session present returns nothing and changes
\* neither the engine's session, nor the chain's memory, nor any stored file;
\* so an end called right after another end returns nothing and changes
\* nothing.
C11_EndWithoutSessionNoOp ==
    /\ [][(EndSession /\ current_session = None)
            => /\ ret'.session = None
               /\ current_session' = current_session
               /\ memory' = memory
               /\ files' = files]_vars
    /\ [](ret.op = "end_session" => current_session = None)

\* The engine's end was called with no session present.
C11_Witness ==
    /\ ret.op = "end_session"
    /\ ret.session = None
    /\ current_session = None
    /\ memory = <<>>

\* The turns of a session as the role-tagged messages of a chain history.
SessionHistory(s) ==
    [i \in 1..Len(s.conversation) |->
        [type |-> IF s.conversation[i].role = "USER" THEN "human" ELSE "ai",
         content |-> s.conversation[i].content]]

\* C12: on every submitTurn that reaches the provider, the history handed to
\* the provider (the chain's memory, next to the new input) is exactly the
\* current session's ordered, role-tagged turn history, seed greeting
\* included and nothing from an earlier session, after any sequence of
\* start, submitTurn and end.
C12_ProviderSeesSessionHistory ==
    [][(ConductInterview /\ ret'.provider_called)
            => memory = SessionHistory(Get(current_session))]_vars

\* C13: for every session with a non-empty conversation, loading the file
\* that save wrote yields a session with the same topic, turns, max_turns and
\* is_active and the same turns in the same order with the same role and
\* content; saved_at and file_version are in the file and do not alter the
\* loaded session.
C13_SaveLoadRoundTrip ==
    (ret.op = "save_interview_session" /\ Get(ret.session).conversation # <<>>)
        => /\ ret.saved # None
           /\ ~load_fails(files, Get(ret.saved))
           /\ Get(files[Get(ret.saved)]).json.file_version = "1.0"
           /\ Get(files[Get(ret.saved)]).json.saved_at = Get(ret.saved)
           /\ LET s == Get(ret.session)
                  l == load_interview_session(files, Get(ret.saved))
              IN  /\ l.topic = s.topic
                  /\ l.turns = s.turns
                  /\ l.max_turns = s.max_turns
                  /\ l.is_active = s.is_active
                  /\ Len(l.conversation) = Len(s.conversation)
                  /\ \A i \in 1..Len(s.conversation) :
                        /\ l.conversation[i].role = s.conversation[i].role
                        /\ l.conversation[i].content = s.conversation[i].content

\* An active session with a user turn and assistant turns was saved and the
\* file written in second 1 loads.
C13_Witness ==
    /\ ret.op = "save_interview_session"
    /\ ret.saved = Some(1)
    /\ Get(ret.session).is_active
    /\ Len(Get(ret.session).conversation) = 5
    /\ load_interview_session(files, 1).conversation[2].role = "USER"
    /\ load_interview_session(files, 1).is_active

SavedSeconds == {saves[i].at : i \in 1..Len(saves)}

\* C14: the file written by a save is named by the second of the save alone:
\* the stored files are exactly those of the seconds in which a save
\* happened and the file of a second holds the last session saved in it, so
\* after n >= 1 successful saves the store holds between 1 and n files, and
\* holds n only if the saves happened in n distinct seconds.
C14_FileNamedBySecond ==
    /\ get_all_interview_files(files) = SavedSeconds
    /\ (ret.op = "save_interview_session" /\ ret.saved # None)
        => /\ Get(ret.saved) = saves[Len(saves)].at
           /\ load_interview_session(files, Get(ret.saved)) = Get(ret.session)
    /\ saves # <<>>
        => /\ 1 <= Cardinality(get_all_interview_files(files))
           /\ Cardinality(get_all_interview_files(files)) <= Len(saves)
           /\ Cardinality(get_all_interview_files(files)) = Len(saves)
                => \A i, j \in 1..Len(saves) : i # j => saves[i].at # saves[j].at

\* Two saves happened in the same second and one file is stored, holding
\* the session saved last.
C14_Witness ==
    /\ Len(saves) = 2
    /\ saves[1].at = saves[2].at
    /\ saves[1].turns # saves[2].turns
    /\ ret.op = "save_interview_session"
    /\ ret.saved # None
    /\ Cardinality(get_all_interview_files(files)) = 1
    /\ load_interview_session(files, Get(ret.saved)).turns = saves[2].turns

\* Sums over the sessions of a set of well-formed files.
RECURSIVE TurnsIn(_, _)
TurnsIn(fs, paths) ==
    IF paths = {} THEN 0
    ELSE LET p == CHOOSE q \in paths : TRUE
         IN  load_interview_session(fs, p).turns + TurnsIn(fs, paths \ {p})

RECURSIVE RecordsIn(_, _)
RecordsIn(fs, paths) ==
    IF paths = {} THEN 0
    ELSE LET p == CHOOSE q \in paths : TRUE
         IN  Len(load_interview_session(fs, p).conversation)
                 + RecordsIn(fs, paths \ {p})

WellFormed(fs) == {p \in get_all_interview_files(fs) : ~load_fails(fs, p)}

C16_EmptySessionRejected ==
    [][(SaveSession /\ Get(ret'.session).conversation = <<>>)
            => /\ ret'.error = "Cannot save empty interview session"
               /\ ret'.saved = None
               /\ files' = files
               /\ saves' = saves]_vars

\* A session without turns was refused by a store that holds a file.
C16_Witness ==
    /\ ret.op = "save_interview_session"
    /\ Get(ret.session).conversation = <<>>
    /\ ret.error = "Cannot save empty interview session"
    /\ get_all_interview_files(files) # {}

WithoutCorrupt(fs) ==
    [p \in DOMAIN fs |-> IF fs[p] # None /\ ~Get(fs[p]).ok THEN None ELSE fs[p]]

Occurrences(seq, x) == Cardinality({i \in 1..Len(seq) : seq[i] = x})

C17_LoadAllSkipsCorrupt ==
    /\ ret.op = "load_all_interview_sessions"
        => /\ Len(ret.value) = Cardinality(WellFormed(files))
           /\ \A p \in WellFormed(files) :
                 Occurrences(ret.value, load_interview_session(files, p)) =
                     Cardinality({q \in WellFormed(files) :
                                     load_interview_session(files, q) =
                                         load_interview_session(files, p)})
    /\ get_statistics(files) = get_statistics(WithoutCorrupt(files))
    /\ \A topic \in TopicFilters, outcome \in {None} \cup {Some(s) : s \in Summaries} :
          generate_alignment_report(files, topic, outcome) =
              generate_alignment_report(WithoutCorrupt(files), topic, outcome)
    /\ \A topics \in TopicLists, fail_at \in 0..3, reply \in Summaries :
          generate_comparative_report(files, topics, fail_at, reply) =
              generate_comparative_report(WithoutCorrupt(files), topics,
                                          fail_at, reply)

\* load_all returned one session from a store whose first file is corrupt
\* and whose second file is well-formed.
C17_Witness ==
    /\ ret.op = "load_all_interview_sessions"
    /\ Len(ret.value) = 1
    /\ files[0] # None /\ ~Get(files[0]).ok
    /\ files[1] # None /\ Get(files[1]).ok

\* The stored topics that a filter text matches, case ignored.
MatchingFiles(fs, text) ==
    {p \in WellFormed(fs) :
        Contains(Lower(text), Lower(load_interview_session(fs, p).topic))}

\* C19: report requests over an empty or non-matching corpus fail before any
\* provider call: generate fails with the no-data error when no transcript
\* loads, with or without a filter; generate with a filter fails with the
\* no-matching-topic error when transcripts load but none has a topic
\* containing the filter, case ignored; generate_comparative fails with a
\* no-data error when no transcript loads or no listed topic matches any.
C19_EmptyCorpusFailsBeforeProvider ==
    /\ (ret.op = "generate_alignment_report" /\ WellFormed(files) = {})
        => /\ ret.value.error = "No interview transcripts found"
           /\ ret.value.report = None
           /\ ret.value.calls = <<>>
    /\ (/\ ret.op = "generate_alignment_report"
        /\ WellFormed(files) # {}
        /\ Truthy(ret.arg.topic)
        /\ MatchingFiles(files, Get(ret.arg.topic)) = {})
        => /\ ret.value.error = "No interviews found for topic"
           /\ ret.value.report = None
           /\ ret.value.calls = <<>>
    /\ (ret.op = "generate_comparative_report" /\ WellFormed(files) = {})
        => /\ ret.value.error = "No interview data available for comparison"
           /\ ret.value.report = None
           /\ ret.value.calls = <<>>
    /\ (/\ ret.op = "generate_comparative_report"
        /\ WellFormed(files) # {}
        /\ \A i \in 1..Len(ret.arg.topics) :
              MatchingFiles(files, ret.arg.topics[i]) = {})
        => /\ ret.value.error = "No interviews found for the specified topics"
           /\ ret.value.report = None
           /\ ret.value.calls = <<>>

\* A report filtered by a text that no stored topic contains was refused
\* over a store with a loadable transcript.
C19_Witness ==
    /\ ret.op = "generate_alignment_report"
    /\ ret.arg.topic = Some(<<"z">>)
    /\ WellFormed(files) # {}
    /\ ret.value.error = "No interviews found for topic"
    /\ ~ret.provider_called

\* C20: a successful generate returns a report whose total_interviews is the
\* number of retained sessions (all loaded sessions without a filter, else
\* those whose topic contains the filter, case ignored), whose summary is the
\* provider's combined summary, and whose topic is the filter text when a
\* filter is given and "Various topics" otherwise; an empty filter text
\* counts as no filter.
C20_ReportCountsRetainedSessions ==
    (ret.op = "generate_alignment_report" /\ ret.value.report # None)
        => LET report == Get(ret.value.report)
               topic == ret.arg.topic
           IN  /\ ret.arg.outcome # None
               /\ report.summary = Get(ret.arg.outcome)
               /\ Len(ret.value.calls) = 1
               /\ Truthy(topic)
                    => /\ report.total_interviews =
                              Cardinality(MatchingFiles(files, Get(topic)))
                       /\ report.topic = Get(topic)
               /\ ~Truthy(topic)
                    => /\ report.total_interviews = Cardinality(WellFormed(files))
                       /\ report.topic = VariousTopics

\* A report filtered by "A" retained both of two stored sessions, whose
\* topics are "a" and "Ab".
C20_Witness ==
    /\ ret.op = "generate_alignment_report"
    /\ ret.arg.topic = Some(<<"A">>)
    /\ ret.value.report # None
    /\ Get(ret.value.report).total_interviews = 2
    /\ {load_interview_session(files, p).topic : p \in WellFormed(files)}
           = {<<"a">>, <<"A", "b">>}

\* The number of stored sessions matched by each entry of a topic list,
\* summed over the entries.
RECURSIVE MatchesPerEntry(_, _)
MatchesPerEntry(fs, topics) ==
    IF topics = <<>> THEN 0
    ELSE Cardinality(MatchingFiles(fs, Head(topics)))
             + MatchesPerEntry(fs, Tail(topics))

\* C21: a successful generate_comparative returns total_interviews equal to
\* the sum, over the entries of the topic list, of the number of stored
\* sessions whose topic contains the entry, case ignored; a session is
\* counted once per matching entry, so with the same filter listed twice
\* every matching session contributes 2.
C21_ComparativeCountsPerEntry ==
    (ret.op = "generate_comparative_report" /\ ret.value.report # None)
        => /\ Get(ret.value.report).total_interviews =
                  MatchesPerEntry(files, ret.arg.topics)
           /\ (Len(ret.arg.topics) = 2 /\ ret.arg.topics[1] = ret.arg.topics[2])
                => Get(ret.value.report).total_interviews =
                       2 * Cardinality(MatchingFiles(files, ret.arg.topics[1]))

\* A comparative report over the list "A", "A" counted each of two stored
\* sessions twice.
C21_Witness ==
    /\ ret.op = "generate_comparative_report"
    /\ ret.arg.topics = <<<<"A">>, <<"A">>>>
    /\ ret.value.report # None
    /\ Cardinality(WellFormed(files)) = 2
    /\ Get(ret.value.report).total_interviews = 4

ReportOps ==
    {"fac_generate_alignment_report", "fac_generate_topic_specific_report",
     "fac_generate_comparative_report"}

C23_StoreWrittenAtTwoPoints ==
    [][/\ files' # files
            => \/ ret'.op = "fac_conduct_interview" /\ ret'.is_complete
               \/ ret'.op = "fac_end_session"
       /\ (ret'.op = "fac_conduct_interview" /\ ~ret'.is_complete)
            => files' = files
       /\ ret'.op \in {"start_new_session", "fac_get_statistics",
                       "fac_session_getters"} \cup ReportOps
            => files' = files]_vars

\* A conduct_interview that did not complete the session returned, the
\* store still empty; and one that completed it has written a file.
C23_Witness ==
    /\ ret.op = "fac_conduct_interview"
    /\ ret.provider_called
    /\ ret.is_complete
    /\ ret.saved # None
    /\ files # NoFiles
    /\ Get(current_session).max_turns = 2

\* The topics of a request that have at least one matching stored session.
MatchedTopics(fs, topics) ==
    {topics[i] : i \in {j \in 1..Len(topics) : MatchingFiles(fs, topics[j]) # {}}}

CallsOfKind(calls, kind) == {i \in 1..Len(calls) : calls[i].kind = kind}

\* C24: in generate_comparative the map-reduce summarization runs once for
\* each topic that has a matching session and never for a topic without
\* one, all of them come before the final free-form call, exactly one such
\* call is made, and a failure of any call leaves no report.
C24_ComparativeSequencing ==
    ret.op = "generate_comparative_report"
        => LET calls == ret.value.calls
               matched == MatchedTopics(files, ret.arg.topics)
               summaries == CallsOfKind(calls, "map_reduce")
               finals == CallsOfKind(calls, "predict")
           IN  /\ \A i \in summaries : calls[i].topic \in matched
               /\ \A i, j \in summaries :
                      calls[i].topic = calls[j].topic => i = j
               /\ Cardinality(finals) <= 1
               /\ \A i \in finals :
                      /\ i = Len(calls)
                      /\ summaries = 1..(i - 1)
                      /\ {calls[j].topic : j \in summaries} = matched
               /\ ret.value.report # None
                      => /\ Cardinality(finals) = 1
                         /\ Cardinality(summaries) = Cardinality(matched)
                         /\ ret.arg.fail_at = 0
               /\ ret.arg.fail_at \in 1..Len(calls)
                      => /\ ret.value.report = None
                         /\ Len(calls) = ret.arg.fail_at

\* A comparative report over "b" and "z", only "b" matching: one
\* summarization, then the final call.
C24_Witness ==
    /\ ret.op = "generate_comparative_report"
    /\ ret.arg.topics = <<<<"b">>, <<"z">>>>
    /\ ret.value.report # None
    /\ Len(ret.value.calls) = 2
    /\ ret.value.calls[1].kind = "map_reduce"
    /\ ret.value.calls[1].topic = <<"b">>
    /\ ret.value.calls[2].kind = "predict"

\* The roles of the last n turns of a conversation.
LastRoles(s, n) ==
    [i \in 1..n |-> s.conversation[Len(s.conversation) - n + i].role]

\* C25: nothing serializes the callers of one engine.  A caller's
\* completion check looks only at the session as it is at that moment, so
\* it passes while another caller that passed the same check is still at
\* the provider; a caller holding a reply appends it to whatever session
\* the engine refers to, complete or not, which takes turns past max_turns
\* (by at most one for two callers), and reports is_complete = true, so
\* both callers save; and a caller whose session was ended while its
\* provider call was in flight finds no session and returns the error
\* tuple, nothing appended.
C25_NoMutualExclusion ==
    /\ [][\A c \in Callers :
            /\ ThreadCheck(c)
                => (threads'[c].pc = "checked"
                        <=> /\ is_session_active(current_session)
                            /\ Get(current_session).turns
                                   < Get(current_session).max_turns)
            /\ (ThreadAppendReply(c) /\ current_session # None)
                => /\ Get(current_session').conversation =
                          Append(Get(current_session).conversation,
                                 [role |-> "ASSISTANT",
                                  content |-> threads[c].response])
                   /\ Get(current_session').turns = Get(current_session).turns + 1
                   /\ threads'[c].error = "None"
                   /\ threads'[c].is_complete
                          = (Get(current_session').turns
                                >= Get(current_session').max_turns)
                   /\ threads'[c].is_complete => threads'[c].pc = "returned"
            /\ (ThreadAppendReply(c) /\ current_session = None)
                => /\ current_session' = None
                   /\ threads'[c].error = "An error occurred: NoneType"
                   /\ threads'[c].response = ""
                   /\ ~threads'[c].is_complete
                   /\ threads'[c].pc = "idle"
            /\ ThreadSave(c)
                => threads'[c].saved # None <=> current_session # None
            /\ FacEndSession => current_session' = None]_vars
    /\ [](current_session # None
            => Get(current_session).turns
                  <= Get(current_session).max_turns + Cardinality(Callers) - 1)

\* Both callers passed the completion check at turns = max_turns - 1: the
\* session has turns = max_turns + 1, two USER turns followed by two
\* ASSISTANT turns, and each caller has saved it.
C25_Witness ==
    /\ current_session # None
    /\ Get(current_session).turns > Get(current_session).max_turns
    /\ Len(Get(current_session).conversation) = 5
    /\ LastRoles(Get(current_session), 4)
           = <<"USER", "USER", "ASSISTANT", "ASSISTANT">>
    /\ \A c \in Callers :
           /\ threads[c].pc = "idle"
           /\ threads[c].is_complete
           /\ threads[c].saved # None

\* C26: completion does not deactivate the session.  After the
\* conduct_interview that returns is_complete = true the engine still holds
\* the session with is_active = true and is_session_active() is true; every
\* further conduct_interview on it returns is_complete = true with the
\* already-complete error, leaves the session as it is, and makes the
\* orchestrator save the session once more.
C26_CompleteStaysActive ==
    /\ []((ret.op = "fac_conduct_interview" /\ ret.is_complete)
            => /\ get_current_session(current_session) # None
               /\ Get(current_session).is_active
               /\ is_session_active(current_session)
               /\ is_complete(Get(current_session))
               /\ ret.saved # None)
    /\ [][(/\ FacConductInterview
            /\ is_session_active(current_session)
            /\ is_complete(Get(current_session)))
          => /\ ret'.is_complete
             /\ ret'.error = "Interview is already complete"
             /\ ret'.response = ""
             /\ ~ret'.provider_called
             /\ current_session' = current_session
             /\ ret'.saved # None
             /\ files'[now] # None
             /\ from_dict(Get(files'[now]).json) = Get(current_session)]_vars

\* A completed session was submitted to again one second later: the call
\* returned the already-complete error, the session is still active, and
\* there are two files of it.
C26_Witness ==
    /\ ret.op = "fac_conduct_interview"
    /\ ret.is_complete
    /\ ret.error = "Interview is already complete"
    /\ ret.saved # None
    /\ is_session_active(current_session)
    /\ Cardinality(get_all_interview_files(files)) = 2

\* C27: start with a valid topic is accepted in every engine state.  With a
\* session already held, active or complete, the engine's reference is
\* replaced by a fresh session, so one session at most is held; the
\* replaced session is left as it was, still active and not written to the
\* store, and the chain's memory is not cleared.
C27_StartReplacesLiveSession ==
    [][((StartSession \/ FacStartNewSession) /\ Strip(ret'.arg) # <<>>)
          => /\ current_session' # None
             /\ Get(current_session').topic = Strip(ret'.arg)
             /\ Get(current_session').turns = 0
             /\ Get(current_session').is_active
             /\ Get(current_session').max_turns = max_interview_turns
             /\ Len(Get(current_session').conversation) = 1
             /\ Get(current_session').conversation[1].role = "ASSISTANT"
             /\ ret'.error = "None"
             /\ start_session(current_session, memory, max_interview_turns,
                              Strip(ret'.arg)).replaced = current_session
             /\ memory' = memory
             /\ files' = files]_vars

\* A session was started over a complete one that was not ended: the new
\* session has no exchange and the memory still holds the old exchange.
C27_Witness ==
    /\ ret.op \in {"start_session", "start_new_session"}
    /\ max_interview_turns = 1
    /\ current_session # None
    /\ Get(current_session).turns = 0
    /\ Len(Get(current_session).conversation) = 1
    /\ Len(memory) = 2

\* A step that puts a new session in place of the one held.
StartsSession ==
    (StartSession \/ FacStartNewSession) /\ Strip(ret'.arg) # <<>>

\* C28: with start, conduct_interview and end called one after the other
\* and the provider failing at any call, the turns counter of the session
\* held never exceeds max_turns, it never decreases, and it changes only in
\* a conduct_interview whose provider call succeeded, by one.
C28_TurnsBoundedAndMonotone ==
    /\ [](current_session # None
            => /\ Get(current_session).turns <= Get(current_session).max_turns
               /\ Get(current_session).turns >= 0)
    /\ [][(current_session # None /\ current_session' # None /\ ~StartsSession)
            => /\ Get(current_session').turns >= Get(current_session).turns
               /\ Get(current_session').max_turns = Get(current_session).max_turns
               /\ Get(current_session').turns # Get(current_session).turns
                    => /\ ConductInterview
                       /\ ret'.provider_called
                       /\ ret'.error = "None"
                       /\ ret'.response # ""
                       /\ Get(current_session').turns
                              = Get(current_session).turns + 1]_vars

\* The last exchange of a session was completed after an earlier call on
\* it had failed at the provider.
C28_Witness ==
    /\ ret.op = "conduct_interview"
    /\ ret.error = "None"
    /\ current_session # None
    /\ Get(current_session).max_turns = 3
    /\ Get(current_session).turns = Get(current_session).max_turns
    /\ Unanswered(Get(current_session)) >= 1

\* The greeting first, and every later ASSISTANT turn right after a USER turn.
ConversationShape(s) ==
    /\ s.conversation # <<>>
    /\ s.conversation[1].role = "ASSISTANT"
    /\ \E topic \in Topics :
           /\ Strip(topic) = s.topic
           /\ s.conversation[1].content = _generate_initial_question(topic)
    /\ \A i \in 2..Len(s.conversation) :
           s.conversation[i].role = "ASSISTANT"
               => s.conversation[i - 1].role = "USER"

\* C29: in every session created by start, under calls made one after the
\* other, turn 1 is the ASSISTANT greeting and every later ASSISTANT turn
\* comes right after a USER turn; turns are only appended; each
\* conduct_interview that reaches the provider adds exactly one USER turn,
\* followed by the reply when the provider answers and by nothing when it
\* fails, and no other call adds a turn, so the USER turns number the calls
\* that reached the provider and two USER turns are adjacent exactly where
\* the provider failed.
C29_ConversationShape ==
    /\ [](/\ current_session # None => ConversationShape(Get(current_session))
          /\ ret.session # None => ConversationShape(Get(ret.session)))
    /\ [][(current_session # None /\ current_session' # None /\ ~StartsSession)
            => LET old == Get(current_session).conversation
                   new == Get(current_session').conversation
                   asked == [role |-> "USER", content |-> ret'.arg]
               IN  /\ Len(new) >= Len(old)
                   /\ SubSeq(new, 1, Len(old)) = old
                   /\ (ConductInterview /\ ret'.provider_called /\ ret'.error = "None")
                        => new = old \o <<asked, [role |-> "ASSISTANT",
                                                  content |-> ret'.response]>>
                   /\ (ConductInterview /\ ret'.provider_called /\ ret'.error # "None")
                        => new = Append(old, asked)
                   /\ ~(ConductInterview /\ ret'.provider_called) => new = old]_vars
    /\ [][StartsSession
            => NumRole(Get(current_session'), "USER") = 0]_vars

\* A call failed at the provider and the next one succeeded: greeting, two
\* USER turns in a row, then the reply.
C29_Witness ==
    /\ ret.op = "conduct_interview"
    /\ ret.error = "None"
    /\ current_session # None
    /\ Len(Get(current_session).conversation) = 4
    /\ Get(current_session).conversation[2].role = "USER"
    /\ Get(current_session).conversation[3].role = "USER"
    /\ Get(current_session).conversation[4].role = "ASSISTANT"
    /\ Get(current_session).turns = 1

====
